---- MODULE Spec2Model ----
(***************************************************************************)
(* Payment reconciliation of the wallpaper shop: the purchases table, the  *)
(* two purchase-creation flows (MercadoPago, Wompi), the two webhook       *)
(* handlers and the timer-driven cleanup of PENDING purchases.             *)
(*                                                                         *)
(* Time is counted in minutes.  Strings the code builds or pattern-matches *)
(* (external references, Wompi transaction ids) are records that keep the  *)
(* parts the code looks at: the prefix/shape, the joined wallpaper numbers *)
(* and the numeric suffix.                                                 *)
(***************************************************************************)
EXTENDS Integers, Sequences, FiniteSets, TLC

\* ------------------------------------------------------------------ bounds
MaxPurchases == 2
MaxNumber == 1
MaxTime == 1440
MaxPaymentIds == 1
MaxDeliveries == 3
MaxConversions == 2

\* ------------------------------------------------------ program constants
ThirtyMinutes == 30
SixHours == 6 * 60
TwentyFourHours == 24 * 60

\* The instants the clock is observed at: creation, just past the 30 minute
\* window, and the 6 hour and 24 hour boundaries.
TimePoints ==
  {t \in {0, ThirtyMinutes + 1, SixHours, TwentyFourHours} : t <= MaxTime}

\* ------------------------------------------------------------ text values
NullText == [shape |-> "null", nums |-> <<>>, n |-> 0]

\* `wallpapers_${wallpaperNumbers.join('-')}_${Date.now()}`
Reference(nums, t) == [shape |-> "wallpapers_", nums |-> nums, n |-> t]

\* a provider-issued Wompi id such as "11779666-1756257523-64296"
RealWompiId == [shape |-> "digits-digits-digits", nums |-> <<>>, n |-> 1]

\* a reference no purchase was created with
UnknownReference == [shape |-> "test_", nums |-> <<>>, n |-> 0]

\* a status argument that is not there (undefined), and the outcome of a
\* call that raised instead of returning
Missing == "<undefined>"
Raised == "TypeError"

\* MercadoPago payment ids are numbers; a row without one holds null
NoPaymentId == 0
PaymentIds == 1..MaxPaymentIds

\* request.wallpaperNumbers as the creation endpoints receive it
NumberLists == {[k \in 1..n |-> k] : n \in 0..MaxNumber}

\* provider vocabularies (a sample of each table's rows plus an unknown word)
MercadoPagoStatuses == {"approved", "rejected", "pending", "refunded", "in_mediation"}
WompiStatuses == {"APPROVED", "DECLINED", "VOIDED", "PENDING", "UNKNOWN"}

CanonicalStatuses == {"PENDING", "COMPLETED", "APPROVED", "REJECTED", "CANCELLED"}
TerminalStatuses == {"COMPLETED", "APPROVED", "REJECTED", "CANCELLED"}

VARIABLES
  purchases,         \* the purchases table: row id |-> row, ids 1..Len
  now,               \* Date.now(), in minutes
  pc,                \* cleanupPendingPurchases: "idle", "running", "done",
                     \* "failed" (the load raised)
  pendingPurchases,  \* the rows findMany returned to the running sweep
  idx,               \* how many of them the for loop has processed
  result,            \* CleanupResult of the running sweep
  http,              \* what the webhook handled last answered and logged,
                     \* where a caller records it (NotObserved: nobody does)
  norm               \* the calls made by a caller that applies the sweep's
                     \* mappers or the provider clients' status queries on
                     \* their own, each with its outcome: <<>> elsewhere

vars == <<purchases, now, pc, pendingPurchases, idx, result, http, norm>>

sweepVars == <<pc, pendingPurchases, idx, result>>

Ids == 1..Len(purchases)

EmptyResult == [processedCount |-> 0, updatedCount |-> 0, errors |-> <<>>]

\* ------------------------------------------------- the webhooks' callers
\* no caller keeps the handlers' answers
NotObserved ==
  [provider |-> "none", response |-> "not observed", log |-> "none",
   signature |-> "null", email |-> "none"]

\* a caller keeps them and has not called yet
NoRequestYet ==
  [provider |-> "none", response |-> "none", log |-> "none",
   signature |-> "null", email |-> "none"]

\* the answer a handler returns to its caller, as the caller keeps it,
\* with what the handler logged about the notification email ("none": it
\* did not come to send one)
Observe(h, provider, response, log, signature, email) ==
  IF h = NotObserved THEN NotObserved
  ELSE [provider |-> provider, response |-> response, log |-> log,
        signature |-> signature, email |-> email]

\* ----------------------------------------------------------------- rows
NewRow(provider, ref, wompiId, nums, t, origin) ==
  [status |-> "PENDING",
   paymentProvider |-> provider,
   externalReference |-> ref,
   mercadopagoPaymentId |-> NoPaymentId,
   wompiTransactionId |-> wompiId,
   wallpaperNumbers |-> nums,
   createdAt |-> t,
   origin |-> origin]

\* Rows the table can hold that neither creation flow of this version
\* writes: a Wompi row whose transaction id is a provider-issued id, a Wompi
\* row without transaction id, and a row of a provider the sweep does not know.
SeedRows ==
  {NewRow("WOMPI", Reference(<<1>>, 0), RealWompiId, <<1>>, 0, "seed"),
   NewRow("WOMPI", Reference(<<1>>, 0), NullText, <<1>>, 0, "seed"),
   NewRow("OTHER", Reference(<<1>>, 0), NullText, <<1>>, 0, "seed")}

Init ==
  /\ purchases = <<>>
  /\ now = 0
  /\ pc = "idle"
  /\ pendingPurchases = <<>>
  /\ idx = 0
  /\ result = EmptyResult
  /\ http = NotObserved
  /\ norm = <<>>

\* the service started on a table that already holds one such row
InitLegacy ==
  /\ purchases \in {<<>>} \cup {<<r>> : r \in SeedRows}
  /\ now = 0
  /\ pc = "idle"
  /\ pendingPurchases = <<>>
  /\ idx = 0
  /\ result = EmptyResult
  /\ http = NotObserved
  /\ norm = <<>>

\* ---------------------------------------------------------------- clock
Tick ==
  /\ \E t \in TimePoints : t > now /\ now' = t
  /\ UNCHANGED <<purchases, sweepVars, http, norm>>


\* ------------------------------------------------------------- creation
\* the validation as it would be without the check of the length
ValidWallpaperNumbers_NoLengthCheck(nums) ==
  \A k \in 1..Len(nums) : ~(nums[k] <= 0 \/ nums[k] > 1000)

\* validation of request.wallpaperNumbers in both creation flows
ValidWallpaperNumbers(nums) ==
  /\ Len(nums) # 0
  /\ \A k \in 1..Len(nums) : ~(nums[k] <= 0 \/ nums[k] > 1000)

\* PurchaseService.createPurchase with MercadoPagoService.createPayment
createPurchase(nums) ==
  /\ Len(purchases) < MaxPurchases
  /\ ValidWallpaperNumbers(nums)
  /\ purchases' = Append(purchases,
       NewRow("null", Reference(nums, now), NullText, nums, now, "MERCADOPAGO"))
  /\ UNCHANGED <<now, sweepVars, http, norm>>

\* WompiPurchaseService.createPurchase with WompiService.createPayment
createWompiPurchase(nums) ==
  /\ Len(purchases) < MaxPurchases
  /\ ValidWallpaperNumbers(nums)
  /\ purchases' = Append(purchases,
       NewRow("WOMPI", Reference(nums, now), Reference(nums, now), nums, now, "WOMPI"))
  /\ UNCHANGED <<now, sweepVars, http, norm>>

\* ------------------------------------------------- MercadoPago webhook
\* statusMapping[paymentDetails.status] || 'PENDING'
statusMapping(mpStatus) ==
  CASE mpStatus = "approved" -> "APPROVED"
    [] mpStatus = "rejected" -> "REJECTED"
    [] mpStatus = "pending" -> "PENDING"
    [] mpStatus = "cancelled" -> "CANCELLED"
    [] mpStatus = "refunded" -> "REFUNDED"
    [] OTHER -> "PENDING"

\* prisma.purchase.findFirst({ where }): the first matching row, 0 if none
FindFirst(store, Match(_)) ==
  IF \E i \in 1..Len(store) : Match(store[i])
    THEN CHOOSE i \in 1..Len(store) :
           /\ Match(store[i])
           /\ \A j \in 1..Len(store) : Match(store[j]) => i <= j
    ELSE 0

\* the lookup as it would be with the external reference tried first
ResolvePurchase_ReferenceFirst(store, mercadopagoPaymentId, externalReference) ==
  LET byPaymentId ==
        FindFirst(store, LAMBDA r : r.mercadopagoPaymentId = mercadopagoPaymentId)
      byReference ==
        FindFirst(store, LAMBDA r : r.externalReference = externalReference)
  IN IF externalReference # NullText /\ byReference # 0 THEN byReference
     ELSE byPaymentId

\* the lookup as it would be if a notification that matches no row were
\* given to the oldest PENDING one
ResolvePurchase_OldestPending(store, mercadopagoPaymentId, externalReference) ==
  LET byPaymentId ==
        FindFirst(store, LAMBDA r : r.mercadopagoPaymentId = mercadopagoPaymentId)
      byReference ==
        FindFirst(store, LAMBDA r : r.externalReference = externalReference)
  IN IF byPaymentId # 0 THEN byPaymentId
     ELSE IF externalReference # NullText /\ byReference # 0 THEN byReference
     ELSE FindFirst(store, LAMBDA r : r.status = "PENDING")

\* PurchaseService.updatePaymentStatus: the row it resolves (0: none)
ResolvePurchase(store, mercadopagoPaymentId, externalReference) ==
  LET byPaymentId ==
        FindFirst(store, LAMBDA r : r.mercadopagoPaymentId = mercadopagoPaymentId)
      byReference ==
        FindFirst(store, LAMBDA r : r.externalReference = externalReference)
  IN IF byPaymentId # 0 THEN byPaymentId
     ELSE IF externalReference # NullText THEN byReference
     ELSE 0

\* updatePaymentStatus as it would be if a row found by its reference were
\* only linked to the payment id, its status left for the next notification
updatePaymentStatus_LinkFirst(store, mercadopagoPaymentId, status, externalReference, t) ==
  LET id == ResolvePurchase(store, mercadopagoPaymentId, externalReference)
  IN IF id = 0 THEN store
     ELSE IF store[id].mercadopagoPaymentId = mercadopagoPaymentId
       THEN [store EXCEPT ![id].status = status]
     ELSE [store EXCEPT ![id].mercadopagoPaymentId = mercadopagoPaymentId]

\* PurchaseService.updatePaymentStatus: the table after the call at time t
updatePaymentStatus(store, mercadopagoPaymentId, status, externalReference, t) ==
  LET id == ResolvePurchase(store, mercadopagoPaymentId, externalReference)
  IN IF id = 0 THEN store
     ELSE [store EXCEPT ![id].status = status,
                        ![id].mercadopagoPaymentId = mercadopagoPaymentId]

\* the rows updatePaymentStatus issues prisma.purchase.update for; the data
\* of the update is { status, mercadopagoPaymentId, updatedAt: new Date() }
updatePaymentStatusWrites(store, mercadopagoPaymentId, externalReference) ==
  {ResolvePurchase(store, mercadopagoPaymentId, externalReference)} \ {0}

\* A payment notification: the payment id it carries and what
\* getPaymentStatus answers for it ("fail": the query raised).
MercadoPagoEvents(store) ==
  [paymentId : PaymentIds,
   status : MercadoPagoStatuses \cup {"fail"},
   externalReference :
     {store[i].externalReference : i \in 1..Len(store)} \cup {UnknownReference, NullText}]

\* funcWebhookMercadoPago for a 'payment' notification: the table after it
handleMercadoPago(store, e, t) ==
  IF e.status = "fail" THEN store
  ELSE updatePaymentStatus(store, e.paymentId, statusMapping(e.status),
                           e.externalReference, t)

\* the notifications the envelope and failure cases are tried with
MercadoPagoProbes(store) == {e \in MercadoPagoEvents(store) : e.status = "approved"}

\* A request to the MercadoPago webhook: req.body.type ("null": absent),
\* whether req.body.data and data.id are there, the notification e, whether
\* the table accepts the update (storeOk = FALSE: prisma raised) and whether
\* the email service sends the notification email (emailOk = FALSE:
\* sendPaymentNotificationFromWebhook raised).
MercadoPagoRequests(store) ==
  {[type |-> "payment", hasData |-> TRUE, hasId |-> TRUE, e |-> e,
    storeOk |-> TRUE, emailOk |-> TRUE] :
     e \in MercadoPagoEvents(store)}
  \cup {[type |-> ty, hasData |-> hd, hasId |-> TRUE, e |-> e,
          storeOk |-> TRUE, emailOk |-> TRUE] :
          ty \in {"null", "merchant_order"}, hd \in BOOLEAN, e \in MercadoPagoProbes(store)}
  \cup {[type |-> "payment", hasData |-> hd, hasId |-> ~hd, e |-> e,
          storeOk |-> TRUE, emailOk |-> TRUE] :
          hd \in BOOLEAN, e \in MercadoPagoProbes(store)}
  \cup {[type |-> "payment", hasData |-> TRUE, hasId |-> TRUE, e |-> e,
          storeOk |-> FALSE, emailOk |-> TRUE] :
          e \in MercadoPagoProbes(store)}
  \cup {[type |-> "payment", hasData |-> TRUE, hasId |-> TRUE, e |-> e,
          storeOk |-> TRUE, emailOk |-> FALSE] :
          e \in MercadoPagoProbes(store)}

\* funcWebhookMercadoPago as it would be if the email were sent, inside
\* the outer try, before the update of the purchase
webhookMercadoPago_EmailFirst(store, r, t) ==
  IF r.type = "null" \/ ~r.hasData
    THEN [purchases |-> store, response |-> "success", log |-> "payload invalid",
          email |-> "none"]
  ELSE IF r.type # "payment"
    THEN [purchases |-> store, response |-> "success", log |-> "type not handled",
          email |-> "none"]
  ELSE IF ~r.hasId
    THEN [purchases |-> store, response |-> "success", log |-> "payment id missing",
          email |-> "none"]
  ELSE IF r.e.status = "fail"
    THEN [purchases |-> store, response |-> "success", log |-> "processing failed",
          email |-> "none"]
  ELSE IF ~r.emailOk
    THEN [purchases |-> store, response |-> "success", log |-> "processing failed",
          email |-> "failed"]
  ELSE IF ResolvePurchase(store, r.e.paymentId, r.e.externalReference) = 0
    THEN [purchases |-> store, response |-> "success", log |-> "purchase not found",
          email |-> "sent"]
  ELSE IF ~r.storeOk
    THEN [purchases |-> store, response |-> "success", log |-> "processing failed",
          email |-> "sent"]
  ELSE [purchases |-> handleMercadoPago(store, r.e, t),
        response |-> "success", log |-> "processed", email |-> "sent"]

\* funcWebhookMercadoPago: the table after the request, the response
\* returned, the branch that was logged and what became of the email
webhookMercadoPago(store, r, t) ==
  IF r.type = "null" \/ ~r.hasData
    THEN [purchases |-> store, response |-> "success", log |-> "payload invalid",
          email |-> "none"]
  ELSE IF r.type # "payment"
    THEN [purchases |-> store, response |-> "success", log |-> "type not handled",
          email |-> "none"]
  ELSE IF ~r.hasId
    THEN [purchases |-> store, response |-> "success", log |-> "payment id missing",
          email |-> "none"]
  ELSE IF r.e.status = "fail"
    THEN [purchases |-> store, response |-> "success", log |-> "processing failed",
          email |-> "none"]
  ELSE IF ResolvePurchase(store, r.e.paymentId, r.e.externalReference) = 0
    THEN [purchases |-> store, response |-> "success", log |-> "purchase not found",
          email |-> IF r.emailOk THEN "sent" ELSE "failed"]
  ELSE IF ~r.storeOk
    THEN [purchases |-> store, response |-> "success", log |-> "processing failed",
          email |-> "none"]
  ELSE [purchases |-> handleMercadoPago(store, r.e, t),
        response |-> "success", log |-> "processed",
        email |-> IF r.emailOk THEN "sent" ELSE "failed"]

funcWebhookMercadoPago(r) ==
  /\ purchases' = webhookMercadoPago(purchases, r, now).purchases
  /\ http' = Observe(http, "MERCADOPAGO", webhookMercadoPago(purchases, r, now).response,
                     webhookMercadoPago(purchases, r, now).log, "null",
                     webhookMercadoPago(purchases, r, now).email)
  /\ UNCHANGED <<now, sweepVars, norm>>

\* -------------------------------------------------------- Wompi webhook
\* WompiPurchaseService.updatePurchaseStatusByReference (updateMany)
updatePurchaseStatusByReference(store, reference, status, t) ==
  [i \in 1..Len(store) |->
     IF store[i].externalReference = reference
       THEN [store[i] EXCEPT !.status = status]
       ELSE store[i]]

\* the rows updateMany writes; the data of the update is
\* { status, updatedAt: new Date() }
updatePurchaseStatusByReferenceWrites(store, reference) ==
  {i \in 1..Len(store) : store[i].externalReference = reference}

WompiEventTypes == {"transaction.updated", "payment_link.paid", "payment_link.expired"}

\* body.event, the reference of data.payment_link (of data.transaction for
\* transaction.updated) and data.transaction.status, which Wompi sends
\* with transaction.updated
WompiEvents(store) ==
  [event : {"payment_link.paid", "payment_link.expired"},
   reference : {store[i].externalReference : i \in 1..Len(store)} \cup {UnknownReference},
   status : {Missing}]
  \cup [event : {"transaction.updated"},
        reference : {store[i].externalReference : i \in 1..Len(store)} \cup {UnknownReference},
        status : WompiStatuses]

\* funcWebhookWompi's switch as it would be if a transaction.updated that
\* reports APPROVED completed the purchases of its reference
handleWompi_TransactionWrites(store, e, t) ==
  CASE e.event = "payment_link.paid" ->
         updatePurchaseStatusByReference(store, e.reference, "COMPLETED", t)
    [] e.event = "payment_link.expired" ->
         updatePurchaseStatusByReference(store, e.reference, "CANCELLED", t)
    [] e.event = "transaction.updated" /\ e.status = "APPROVED" ->
         updatePurchaseStatusByReference(store, e.reference, "COMPLETED", t)
    [] OTHER -> store

\* funcWebhookWompi's switch on the event type: the table after it
handleWompi(store, e, t) ==
  CASE e.event = "payment_link.paid" ->
         updatePurchaseStatusByReference(store, e.reference, "COMPLETED", t)
    [] e.event = "payment_link.expired" ->
         updatePurchaseStatusByReference(store, e.reference, "CANCELLED", t)
    [] OTHER -> store

\* the events the envelope, signature and failure cases are tried with
WompiProbes(store) == {e \in WompiEvents(store) : e.event = "payment_link.paid"}

\* A request to the Wompi webhook: whether req.body, body.data are there,
\* body.event inside e ("null": absent, "other": a type the switch does not
\* know), body.signature ("null": absent, "valid": the HMAC of the payload,
\* "forged": anything else), and whether the table accepts the update.
WompiRequests(store) ==
  {[hasBody |-> TRUE, hasData |-> TRUE, signature |-> "null", e |-> e, storeOk |-> TRUE] :
     e \in WompiEvents(store)}
  \cup {[hasBody |-> TRUE, hasData |-> TRUE, signature |-> "null",
          e |-> [event |-> ev, reference |-> e.reference, status |-> e.status], storeOk |-> TRUE] :
          ev \in {"null", "other"}, e \in WompiProbes(store)}
  \cup {[hasBody |-> hb, hasData |-> ~hb, signature |-> "null", e |-> e, storeOk |-> TRUE] :
          hb \in BOOLEAN, e \in WompiProbes(store)}
  \cup {[hasBody |-> TRUE, hasData |-> TRUE, signature |-> sg, e |-> e, storeOk |-> TRUE] :
          sg \in {"valid", "forged"}, e \in WompiProbes(store)}
  \cup {[hasBody |-> TRUE, hasData |-> TRUE, signature |-> "null", e |-> e, storeOk |-> FALSE] :
          e \in WompiProbes(store)}

\* validateWebhookSignature as its commented-out HMAC comparison would be
validateWebhookSignature_Hmac(payload, signature) == signature = "valid"

\* WompiService.validateWebhookSignature: 'Por ahora retornamos true'
validateWebhookSignature(payload, signature) == TRUE

\* funcWebhookWompi as it would be without the checks of the envelope
webhookWompi_NoEnvelopeCheck(store, r, t) ==
  IF r.signature # "null" /\ ~validateWebhookSignature(r, r.signature)
    THEN [purchases |-> store, response |-> "unauthorized", log |-> "invalid signature"]
  ELSE IF r.e.event \notin WompiEventTypes
    THEN [purchases |-> store, response |-> "success", log |-> "unhandled event"]
  ELSE IF r.e.event # "transaction.updated" /\ ~r.storeOk
    THEN [purchases |-> store, response |-> "success", log |-> "processing failed"]
  ELSE [purchases |-> handleWompi(store, r.e, t),
        response |-> "success", log |-> "processed"]

\* funcWebhookWompi: the table after the request, the response returned
\* and the branch that was logged
webhookWompi(store, r, t) ==
  IF ~r.hasBody
    THEN [purchases |-> store, response |-> "badRequest", log |-> "missing body"]
  ELSE IF r.e.event = "null" \/ ~r.hasData
    THEN [purchases |-> store, response |-> "badRequest", log |-> "invalid format"]
  ELSE IF r.signature # "null" /\ ~validateWebhookSignature(r, r.signature)
    THEN [purchases |-> store, response |-> "unauthorized", log |-> "invalid signature"]
  ELSE IF r.e.event \notin WompiEventTypes
    THEN [purchases |-> store, response |-> "success", log |-> "unhandled event"]
  ELSE IF r.e.event # "transaction.updated" /\ ~r.storeOk
    THEN [purchases |-> store, response |-> "success", log |-> "processing failed"]
  ELSE [purchases |-> handleWompi(store, r.e, t),
        response |-> "success", log |-> "processed"]

funcWebhookWompi(r) ==
  /\ purchases' = webhookWompi(purchases, r, now).purchases
  /\ http' = Observe(http, "WOMPI", webhookWompi(purchases, r, now).response,
                     webhookWompi(purchases, r, now).log, r.signature, "none")
  /\ UNCHANGED <<now, sweepVars, norm>>


\* ------------------------------------------------------------ the sweep
\* CleanupService.mapMercadoPagoStatus
mapMercadoPagoStatus(mpStatus) ==
  CASE mpStatus = "approved" -> "COMPLETED"
    [] mpStatus \in {"rejected", "cancelled"} -> "REJECTED"
    [] mpStatus \in {"refunded", "charged_back"} -> "CANCELLED"
    [] OTHER -> "PENDING"

\* String.prototype.toLowerCase on the words of the MercadoPago vocabulary
toLowerCase(w) ==
  CASE w = "APPROVED" -> "approved"
    [] OTHER -> w

\* the sweep's mapper of MercadoPago statuses as the earlier version of the
\* service has it: switch (mercadoPagoStatus?.toLowerCase())
mapMercadoPagoStatus_Earlier(mercadoPagoStatus) ==
  LET l == IF mercadoPagoStatus = Missing THEN Missing ELSE toLowerCase(mercadoPagoStatus)
  IN CASE l = "approved" -> "APPROVED"
       [] l = "rejected" -> "REJECTED"
       [] l \in {"cancelled", "canceled"} -> "CANCELLED"
       [] l \in {"pending", "in_process"} -> "PENDING"
       [] l = "refunded" -> "CANCELLED"
       [] OTHER -> "PENDING"

\* String.prototype.toUpperCase on the words of the Wompi vocabulary
toUpperCase(w) ==
  CASE w = "approved" -> "APPROVED"
    [] OTHER -> w

\* CleanupService.mapWompiStatus: switch (wompiStatus.toUpperCase()), a call
\* on a status that is not there raises
mapWompiStatus(wompiStatus) ==
  IF wompiStatus = Missing THEN Raised
  ELSE LET u == toUpperCase(wompiStatus)
       IN CASE u = "APPROVED" -> "COMPLETED"
            [] u \in {"DECLINED", "ERROR"} -> "REJECTED"
            [] u = "VOIDED" -> "CANCELLED"
            [] OTHER -> "PENDING"

\* isRealWompiTransactionId as it would be if every stored id counted as
\* a provider-issued one
isRealWompiTransactionId_AnyId(wompiTransactionId) ==
  wompiTransactionId # NullText

\* CleanupService.isRealWompiTransactionId
isRealWompiTransactionId(wompiTransactionId) ==
  IF wompiTransactionId = NullText THEN FALSE
  ELSE IF wompiTransactionId.shape \in {"wallpapers_", "test_"} THEN FALSE
  ELSE wompiTransactionId.shape = "digits-digits-digits"

\* const provider = purchase.paymentProvider || 'MERCADOPAGO': the default
\* replaces every falsy value, null and the empty string
ProviderOf(p) ==
  IF p.paymentProvider \in {"null", ""} THEN "MERCADOPAGO" ELSE p.paymentProvider

\* whether processing p asks the provider for the live status
QueriesProvider(p) ==
  CASE ProviderOf(p) = "WOMPI" ->
         p.wompiTransactionId # NullText /\ isRealWompiTransactionId(p.wompiTransactionId)
    [] ProviderOf(p) = "MERCADOPAGO" -> p.mercadopagoPaymentId # NoPaymentId
    [] OTHER -> FALSE

\* the answers the provider query of p can give ("fail": it raised)
ProviderAnswers(p) ==
  IF ~QueriesProvider(p) THEN {"none"}
  ELSE IF ProviderOf(p) = "WOMPI" THEN WompiStatuses \cup {"approved", "fail"}
  ELSE MercadoPagoStatuses \cup {"fail"}

\* processWompiPurchase as it would be without the 24 hour fallback
processWompiPurchase_NoHardTimeout(p, t, q) ==
  IF p.wompiTransactionId = NullText /\ p.createdAt < t - ThirtyMinutes
    THEN [shouldUpdate |-> TRUE, newStatus |-> "CANCELLED"]
  ELSE IF p.wompiTransactionId # NullText
    THEN IF isRealWompiTransactionId(p.wompiTransactionId)
           THEN IF q # "fail"
                  THEN [shouldUpdate |-> TRUE, newStatus |-> mapWompiStatus(q)]
                ELSE [shouldUpdate |-> FALSE, newStatus |-> "PENDING"]
         ELSE IF t - p.createdAt >= SixHours
           THEN [shouldUpdate |-> TRUE, newStatus |-> "CANCELLED"]
         ELSE [shouldUpdate |-> FALSE, newStatus |-> "PENDING"]
  ELSE [shouldUpdate |-> FALSE, newStatus |-> "PENDING"]

\* processWompiPurchase as it would be if the 24 hour window were applied
\* before the provider is asked
processWompiPurchase_TimeoutFirst(p, t, q) ==
  IF p.wompiTransactionId = NullText /\ p.createdAt < t - ThirtyMinutes
    THEN [shouldUpdate |-> TRUE, newStatus |-> "CANCELLED"]
  ELSE IF p.wompiTransactionId # NullText
    THEN IF isRealWompiTransactionId(p.wompiTransactionId)
           THEN IF t - p.createdAt >= TwentyFourHours
                  THEN [shouldUpdate |-> TRUE, newStatus |-> "CANCELLED"]
                ELSE IF q # "fail"
                  THEN [shouldUpdate |-> TRUE, newStatus |-> mapWompiStatus(q)]
                ELSE [shouldUpdate |-> FALSE, newStatus |-> "PENDING"]
         ELSE IF t - p.createdAt >= SixHours
           THEN [shouldUpdate |-> TRUE, newStatus |-> "CANCELLED"]
         ELSE [shouldUpdate |-> FALSE, newStatus |-> "PENDING"]
  ELSE [shouldUpdate |-> FALSE, newStatus |-> "PENDING"]

\* processWompiPurchase up to the update: shouldUpdate and newStatus for the
\* loaded row p, processed at time t, the provider answering q
processWompiPurchase(p, t, q) ==
  IF p.wompiTransactionId = NullText /\ p.createdAt < t - ThirtyMinutes
    THEN [shouldUpdate |-> TRUE, newStatus |-> "CANCELLED"]
  ELSE IF p.wompiTransactionId # NullText
    THEN IF isRealWompiTransactionId(p.wompiTransactionId)
           THEN IF q # "fail"
                  THEN [shouldUpdate |-> TRUE, newStatus |-> mapWompiStatus(q)]
                ELSE IF t - p.createdAt >= TwentyFourHours
                  THEN [shouldUpdate |-> TRUE, newStatus |-> "CANCELLED"]
                ELSE [shouldUpdate |-> FALSE, newStatus |-> "PENDING"]
         ELSE IF t - p.createdAt >= SixHours
           THEN [shouldUpdate |-> TRUE, newStatus |-> "CANCELLED"]
         ELSE [shouldUpdate |-> FALSE, newStatus |-> "PENDING"]
  ELSE [shouldUpdate |-> FALSE, newStatus |-> "PENDING"]

\* searchPaymentsByReference: always the empty list
searchPaymentsByReference(externalReference) == <<>>

\* processMercadoPagoPurchase as it would be with the 6 hour window in
\* place of the 30 minute one
processMercadoPagoPurchase_SixHours(p, t, q) ==
  LET byId == IF p.mercadopagoPaymentId # NoPaymentId /\ q # "fail" THEN q ELSE "none"
      expired == byId = "none" /\ p.createdAt < t - SixHours
  IN IF byId # "none"
       THEN [shouldUpdate |-> TRUE, newStatus |-> mapMercadoPagoStatus(byId)]
     ELSE IF expired
       THEN [shouldUpdate |-> TRUE, newStatus |-> "CANCELLED"]
     ELSE [shouldUpdate |-> FALSE, newStatus |-> "PENDING"]

\* processMercadoPagoPurchase up to the update
processMercadoPagoPurchase(p, t, q) ==
  LET byId == IF p.mercadopagoPaymentId # NoPaymentId /\ q # "fail" THEN q ELSE "none"
      found == IF byId = "none" /\ Len(searchPaymentsByReference(p.externalReference)) > 0
                 THEN searchPaymentsByReference(p.externalReference)[1]
                 ELSE byId
      expired == found = "none" /\ p.createdAt < t - ThirtyMinutes
  IN IF found # "none"
       THEN [shouldUpdate |-> TRUE, newStatus |-> mapMercadoPagoStatus(found)]
     ELSE IF expired
       THEN [shouldUpdate |-> TRUE, newStatus |-> "CANCELLED"]
     ELSE [shouldUpdate |-> FALSE, newStatus |-> "PENDING"]

\* processPendingPurchase as it would be if the MercadoPago policy were the
\* one of every provider that is not WOMPI
processPendingPurchase_DefaultPolicy(p, t, q) ==
  CASE ProviderOf(p) = "WOMPI" -> processWompiPurchase(p, t, q)
    [] OTHER -> processMercadoPagoPurchase(p, t, q)

\* processPendingPurchase: the dispatch on the payment provider
processPendingPurchase(p, t, q) ==
  CASE ProviderOf(p) = "WOMPI" -> processWompiPurchase(p, t, q)
    [] ProviderOf(p) = "MERCADOPAGO" -> processMercadoPagoPurchase(p, t, q)
    [] OTHER -> [shouldUpdate |-> FALSE, newStatus |-> "PENDING"]

\* findMany({ where: { status: 'PENDING' }, orderBy: { createdAt: 'asc' } })
RECURSIVE SortByCreatedAt(_, _)
SortByCreatedAt(store, ids) ==
  IF ids = {} THEN <<>>
  ELSE LET first == CHOOSE i \in ids :
                      \A j \in ids :
                        \/ store[i].createdAt < store[j].createdAt
                        \/ (store[i].createdAt = store[j].createdAt /\ i <= j)
       IN <<[id |-> first] @@ store[first]>> \o SortByCreatedAt(store, ids \ {first})

\* the load as it would be with orderBy: { createdAt: 'desc' }
FindPending_NewestFirst(store) ==
  LET asc == SortByCreatedAt(store, {i \in 1..Len(store) : store[i].status = "PENDING"})
  IN [k \in 1..Len(asc) |-> asc[Len(asc) + 1 - k]]

FindPending(store) ==
  SortByCreatedAt(store, {i \in 1..Len(store) : store[i].status = "PENDING"})

\* cleanupPendingPurchases up to the for loop as it would be if a failed
\* load were answered with an empty result
cleanupLoad_SwallowLoadError(loadOk) ==
  /\ pc = "idle"
  /\ pendingPurchases' = IF loadOk THEN FindPending(purchases) ELSE <<>>
  /\ idx' = 0
  /\ result' = IF loadOk
                 THEN [EmptyResult EXCEPT !.processedCount = Len(FindPending(purchases))]
                 ELSE EmptyResult
  /\ pc' = IF loadOk /\ Len(FindPending(purchases)) # 0 THEN "running" ELSE "done"
  /\ UNCHANGED <<purchases, now, http, norm>>

\* cleanupPendingPurchases up to the for loop; loadOk = FALSE: findMany
\* raised, the outer catch logs and rethrows
cleanupLoad(loadOk) ==
  /\ pc = "idle"
  /\ pendingPurchases' = IF loadOk THEN FindPending(purchases) ELSE <<>>
  /\ idx' = 0
  /\ result' = IF loadOk
                 THEN [EmptyResult EXCEPT !.processedCount = Len(FindPending(purchases))]
                 ELSE EmptyResult
  /\ pc' = IF ~loadOk THEN "failed"
           ELSE IF Len(FindPending(purchases)) = 0 THEN "done" ELSE "running"
  /\ UNCHANGED <<purchases, now, http, norm>>

\* if (shouldUpdate && newStatus !== purchase.status): whether processing
\* the loaded row p issues prisma.purchase.update, whose data is
\* { status: newStatus, updatedAt: new Date() }
issuesUpdate(p, t, q) ==
  /\ processPendingPurchase(p, t, q).shouldUpdate
  /\ processPendingPurchase(p, t, q).newStatus # p.status

\* one iteration of the for loop as it would be if the error of a purchase
\* ended the loop
cleanupStep_AbortOnError(q, storeOk) ==
  /\ pc = "running"
  /\ LET p == pendingPurchases[idx + 1]
         d == processPendingPurchase(p, now, q)
         writes == issuesUpdate(p, now, q)
     IN /\ q \in ProviderAnswers(p)
        /\ writes \/ storeOk
        /\ IF writes /\ storeOk
             THEN purchases' = [purchases EXCEPT ![p.id].status = d.newStatus]
             ELSE UNCHANGED purchases
        /\ IF storeOk
             THEN result' = [result EXCEPT !.updatedCount = @ + 1]
             ELSE result' = [result EXCEPT !.errors =
                               Append(@, [purchaseId |-> p.id, error |-> "update failed"])]
  /\ idx' = idx + 1
  /\ pc' = IF idx + 1 = Len(pendingPurchases) \/ ~storeOk THEN "done" ELSE "running"
  /\ UNCHANGED <<now, pendingPurchases, http, norm>>

\* one iteration of the for loop as it would be with result.updatedCount++
\* ahead of the call of processPendingPurchase
cleanupStep_CountFirst(q, storeOk) ==
  /\ pc = "running"
  /\ LET p == pendingPurchases[idx + 1]
         d == processPendingPurchase(p, now, q)
         writes == issuesUpdate(p, now, q)
     IN /\ q \in ProviderAnswers(p)
        /\ writes \/ storeOk
        /\ IF writes /\ storeOk
             THEN purchases' = [purchases EXCEPT ![p.id].status = d.newStatus]
             ELSE UNCHANGED purchases
        /\ IF storeOk
             THEN result' = [result EXCEPT !.updatedCount = @ + 1]
             ELSE result' = [result EXCEPT !.updatedCount = @ + 1,
                                           !.errors =
                               Append(@, [purchaseId |-> p.id, error |-> "update failed"])]
  /\ idx' = idx + 1
  /\ pc' = IF idx + 1 = Len(pendingPurchases) THEN "done" ELSE "running"
  /\ UNCHANGED <<now, pendingPurchases, http, norm>>

\* one iteration of the for loop: processPendingPurchase(purchase) and the
\* bookkeeping around it; storeOk = FALSE: prisma.purchase.update raised
cleanupStep(q, storeOk) ==
  /\ pc = "running"
  /\ LET p == pendingPurchases[idx + 1]
         d == processPendingPurchase(p, now, q)
         writes == issuesUpdate(p, now, q)
     IN /\ q \in ProviderAnswers(p)
        /\ writes \/ storeOk
        /\ IF writes /\ storeOk
             THEN purchases' = [purchases EXCEPT ![p.id].status = d.newStatus]
             ELSE UNCHANGED purchases
        /\ IF storeOk
             THEN result' = [result EXCEPT !.updatedCount = @ + 1]
             ELSE result' = [result EXCEPT !.errors =
                               Append(@, [purchaseId |-> p.id, error |-> "update failed"])]
  /\ idx' = idx + 1
  /\ pc' = IF idx + 1 = Len(pendingPurchases) THEN "done" ELSE "running"
  /\ UNCHANGED <<now, pendingPurchases, http, norm>>

\* cleanupPendingPurchases returns its result to the timer function
cleanupReturn ==
  /\ pc = "done"
  /\ pc' = "idle"
  /\ pendingPurchases' = <<>>
  /\ idx' = 0
  /\ result' = EmptyResult
  /\ UNCHANGED <<purchases, now, http, norm>>

\* ------------------------------------------------- wallpaper availability
\* Array.from(set).sort((a, b) => a - b)
RECURSIVE SortNumbers(_)
SortNumbers(set) ==
  IF set = {} THEN <<>>
  ELSE LET least == CHOOSE n \in set : \A m \in set : n <= m
       IN <<least>> \o SortNumbers(set \ {least})

\* JSON.parse(purchase.wallpaperNumbers) of the given rows, added to a Set
WallpapersOf(store, rows) ==
  UNION {{store[i].wallpaperNumbers[k] : k \in 1..Len(store[i].wallpaperNumbers)} : i \in rows}

\* getWallpaperStatus as it would be without the where clause, every row
\* that is not approved counted as pending
getWallpaperStatus_NoFilter(store) ==
  LET found == 1..Len(store)
  IN [approved |-> SortNumbers(WallpapersOf(store,
                     {i \in found : store[i].status \in {"APPROVED", "COMPLETED"}})),
      pending |-> SortNumbers(WallpapersOf(store,
                    {i \in found : store[i].status \notin {"APPROVED", "COMPLETED"}}))]

\* PurchaseService.getWallpaperStatus
getWallpaperStatus(store) ==
  LET found == {i \in 1..Len(store) : store[i].status \in {"APPROVED", "COMPLETED", "PENDING"}}
  IN [approved |-> SortNumbers(WallpapersOf(store,
                     {i \in found : store[i].status \in {"APPROVED", "COMPLETED"}})),
      pending |-> SortNumbers(WallpapersOf(store,
                    {i \in found : store[i].status = "PENDING"}))]

\* funcGetWallpaperStatus: the data of the success response
funcGetWallpaperStatus(store) ==
  LET wallpaperStatus == getWallpaperStatus(store)
  IN [approved |-> wallpaperStatus.approved,
      pending |-> wallpaperStatus.pending,
      summary |->
        [approvedCount |-> Len(wallpaperStatus.approved),
         pendingCount |-> Len(wallpaperStatus.pending),
         totalUnavailable |-> Len(wallpaperStatus.approved) + Len(wallpaperStatus.pending)]]

\* the timer function's catch: the error of the run is logged and rethrown
\* to the host
cleanupThrow ==
  /\ pc = "failed"
  /\ pc' = "idle"
  /\ UNCHANGED <<purchases, now, pendingPurchases, idx, result, http, norm>>

\* ------------------------------------------- the mappers on their own
\* Words a status argument can be: each provider's documented statuses, a
\* word of the other letter case, a word in neither table, the empty string
\* and no string at all.
MercadoPagoWords ==
  {"approved", "rejected", "cancelled", "refunded", "charged_back", "pending",
   "in_process", "in_mediation", "authorized", "APPROVED", "expired", "", Missing}
WompiWords ==
  {"APPROVED", "DECLINED", "ERROR", "VOIDED", "PENDING", "approved", "UNKNOWN", "", Missing}

\* the case labels of each switch other than those that fall to default
mapMercadoPagoStatusCases ==
  {"approved", "rejected", "cancelled", "refunded", "charged_back"}
mapMercadoPagoStatus_EarlierCases ==
  {"approved", "APPROVED", "rejected", "cancelled", "canceled", "pending", "in_process", "refunded"}
mapWompiStatusCases == {"APPROVED", "approved", "DECLINED", "ERROR", "VOIDED"}

Mappers == {"mapMercadoPagoStatus", "mapMercadoPagoStatus (earlier)", "mapWompiStatus"}

WordsOf(mapper) == IF mapper = "mapWompiStatus" THEN WompiWords ELSE MercadoPagoWords

\* the call mapper(word)
Apply(mapper, word) ==
  CASE mapper = "mapMercadoPagoStatus" -> mapMercadoPagoStatus(word)
    [] mapper = "mapMercadoPagoStatus (earlier)" -> mapMercadoPagoStatus_Earlier(word)
    [] mapper = "mapWompiStatus" -> mapWompiStatus(word)

\* one call of a mapper, kept by the caller
normalize(mapper, word) ==
  /\ Len(norm) < MaxConversions
  /\ word \in WordsOf(mapper)
  /\ norm' = Append(norm, [mapper |-> mapper, native |-> word, canonical |-> Apply(mapper, word)])
  /\ UNCHANGED <<purchases, now, sweepVars, http>>

NextNormalizer ==
  \E mapper \in Mappers, word \in MercadoPagoWords \cup WompiWords : normalize(mapper, word)

SpecNormalizer == Init /\ [][NextNormalizer]_vars

\* ------------------------------------- the status queries on their own
\* What a provider's API gives to a status query: no answer (the request
\* failed on the network), an answer with an error status code, or an answer
\* with a success status code; the body's status field is a word of the
\* provider's vocabulary, empty or not there.
WompiResponses ==
  {[network |-> "error", ok |-> FALSE, status |-> Missing]}
  \cup [network : {"ok"}, ok : BOOLEAN, status : WompiWords]
MercadoPagoResponses ==
  {[network |-> "error", ok |-> FALSE, status |-> Missing]}
  \cup [network : {"ok"}, ok : BOOLEAN, status : MercadoPagoWords]

\* getTransactionStatus as it would be if an error answer were taken for a
\* transaction still in process
getTransactionStatus_GuessOnError(response) ==
  IF response.network = "error" THEN "fail"
  ELSE IF ~response.ok THEN "PENDING"
  ELSE IF response.status \in {Missing, ""} THEN "UNKNOWN"
  ELSE response.status

\* WompiService.getTransactionStatus: the status it returns ("fail": it
\* raised); fetch rejects on a network error, !response.ok throws, and
\* responseData.data?.status || 'UNKNOWN' is returned otherwise
getTransactionStatus(response) ==
  IF response.network = "error" THEN "fail"
  ELSE IF ~response.ok THEN "fail"
  ELSE IF response.status \in {Missing, ""} THEN "UNKNOWN"
  ELSE response.status

\* MercadoPagoService.getPaymentStatus: payment.get rejects on a network
\* error and on an error answer, the catch rethrows; response.status is
\* returned as it is otherwise
getPaymentStatus(response) ==
  IF response.network = "error" \/ ~response.ok THEN "fail"
  ELSE response.status

Queries == {"getTransactionStatus", "getPaymentStatus"}

ResponsesOf(query) ==
  IF query = "getTransactionStatus" THEN WompiResponses ELSE MercadoPagoResponses

\* one call of a status query, kept by the caller
queryStatus(query, response) ==
  /\ Len(norm) < MaxConversions
  /\ response \in ResponsesOf(query)
  /\ norm' = Append(norm,
       [mapper |-> query, native |-> response,
        canonical |-> IF query = "getTransactionStatus"
                        THEN getTransactionStatus(response)
                        ELSE getPaymentStatus(response)])
  /\ UNCHANGED <<purchases, now, sweepVars, http>>

NextQuery ==
  \E query \in Queries, response \in WompiResponses \cup MercadoPagoResponses :
    queryStatus(query, response)

SpecQuery == Init /\ [][NextQuery]_vars

\* ------------------------------------------------------- specification
Next ==
  \/ Tick
  \/ \E nums \in NumberLists : createPurchase(nums)
  \/ \E nums \in NumberLists : createWompiPurchase(nums)
  \/ \E r \in MercadoPagoRequests(purchases) : funcWebhookMercadoPago(r)
  \/ \E r \in WompiRequests(purchases) : funcWebhookWompi(r)
  \/ \E loadOk \in BOOLEAN : cleanupLoad(loadOk)
  \/ \E q \in MercadoPagoStatuses \cup WompiStatuses \cup {"approved", "fail", "none"},
        storeOk \in BOOLEAN : cleanupStep(q, storeOk)
  \/ cleanupReturn
  \/ cleanupThrow

Spec == Init /\ [][Next]_vars

SpecLegacy == InitLegacy /\ [][Next]_vars

\* Rows whose paymentProvider column holds a value neither creation flow of
\* this version writes: the provider's name written out ('MERCADOPAGO,
\* WOMPI, etc.'), the empty string and a provider the sweep does not know.
ProviderRows ==
  {NewRow(provider, Reference(<<1>>, 0), NullText, <<1>>, 0, "seed") :
     provider \in {"MERCADOPAGO", "", "OTHER"}}

\* the service started on a table that holds one such row
InitProviders ==
  /\ purchases \in {<<r>> : r \in ProviderRows}
  /\ now = 0
  /\ pc = "idle"
  /\ pendingPurchases = <<>>
  /\ idx = 0
  /\ result = EmptyResult
  /\ http = NotObserved
  /\ norm = <<>>

SpecProviders == InitProviders /\ [][Next]_vars

\* The MercadoPago flow on its own, with the payment ids of two attempts
\* to pay the same preference: the notification of each attempt carries
\* the attempt's own payment id and the external reference of the purchase.
AttemptIds == 1..(MaxPaymentIds + 1)

NextPayments ==
  \/ Tick
  \/ \E nums \in NumberLists : createPurchase(nums)
  \/ \E r \in MercadoPagoRequests(purchases), id \in AttemptIds :
       funcWebhookMercadoPago([r EXCEPT !.e.paymentId = id])
  \/ \E loadOk \in BOOLEAN : cleanupLoad(loadOk)
  \/ \E q \in MercadoPagoStatuses \cup {"fail", "none"},
        storeOk \in BOOLEAN : cleanupStep(q, storeOk)
  \/ cleanupReturn
  \/ cleanupThrow

SpecPayments == Init /\ [][NextPayments]_vars

\* The HTTP triggers with a caller that keeps every answer of the webhooks;
\* the cleanup timer is not part of it.
InitHttp ==
  /\ purchases = <<>>
  /\ now = 0
  /\ pc = "idle"
  /\ pendingPurchases = <<>>
  /\ idx = 0
  /\ result = EmptyResult
  /\ http = NoRequestYet
  /\ norm = <<>>

NextHttp ==
  \/ Tick
  \/ \E nums \in NumberLists : createPurchase(nums)
  \/ \E nums \in NumberLists : createWompiPurchase(nums)
  \/ \E r \in MercadoPagoRequests(purchases) : funcWebhookMercadoPago(r)
  \/ \E r \in WompiRequests(purchases) : funcWebhookWompi(r)

SpecHttp == InitHttp /\ [][NextHttp]_vars

\* The timer keeps firing, the clock keeps advancing, a started run goes on to
\* its end, and the table refuses neither the load nor the update of a row
\* forever.
FairSpec ==
  /\ Init
  /\ [][Next]_vars
  /\ WF_vars(Tick)
  /\ SF_vars(cleanupLoad(TRUE))
  /\ WF_vars(cleanupReturn)
  /\ WF_vars(cleanupThrow)
  /\ \A i \in 1..MaxPurchases :
       SF_vars(\E q \in MercadoPagoStatuses \cup WompiStatuses \cup {"approved", "fail", "none"} :
                 cleanupStep(q, TRUE) /\ pendingPurchases[idx + 1].id = i)


\* =============================================================== claims
StatusOf(store) == [i \in 1..Len(store) |-> store[i].status]

\* C1: once a purchase's status is terminal (COMPLETED, APPROVED, REJECTED,
\* CANCELLED), no later webhook delivery and no later sweep step changes it.
\* Violated by the code: both webhook handlers and the sweep write the status
\* without looking at the stored one.
C1_TerminalStickiness ==
  [][\A i \in 1..Len(purchases) :
       purchases[i].status \in TerminalStatuses
         => purchases'[i].status = purchases[i].status]_vars

\* C2: a sweep write takes effect only if the stored status still equals the
\* status the sweep loaded; when a webhook changed the status in between, the
\* sweep's step for that purchase changes no status and records no error.
\* Violated by the code: the update is keyed by id alone.
C2_ConditionalWrite ==
  [][\A q \in MercadoPagoStatuses \cup WompiStatuses \cup {"approved", "fail", "none"} :
       cleanupStep(q, TRUE) =>
         LET p == pendingPurchases[idx + 1]
         IN purchases[p.id].status # p.status
              => /\ StatusOf(purchases') = StatusOf(purchases)
                 /\ result'.errors = result.errors]_vars

\* C3: when a webhook delivery and a sweep run race on a purchase loaded as
\* PENDING, the status after the sweep's step is one that the webhook or the
\* sweep proposed, and a terminal status the webhook already applied is the
\* final one (the sweep does not end the race with a different status).
\* Violated by the code: the sweep overwrites the webhook's terminal status.
C3_ConvergenceUnderRace ==
  [][\A q \in MercadoPagoStatuses \cup WompiStatuses \cup {"approved", "fail", "none"},
        storeOk \in BOOLEAN :
       cleanupStep(q, storeOk) =>
         LET p == pendingPurchases[idx + 1]
             proposedByWebhook == purchases[p.id].status
             proposedBySweep == processPendingPurchase(p, now, q).newStatus
             final == purchases'[p.id].status
         IN /\ final \in {proposedByWebhook, proposedBySweep}
            /\ proposedByWebhook \in TerminalStatuses => final = proposedByWebhook]_vars

\* C7: every purchase's status is one of PENDING, COMPLETED, APPROVED,
\* REJECTED, CANCELLED.  Violated by the code: the MercadoPago webhook stores
\* REFUNDED for a refunded payment.
C7_StatusDomain ==
  \A i \in 1..Len(purchases) : purchases[i].status \in CanonicalStatuses

\* C8: no two purchases share an externalReference.  Violated by the code:
\* two creations for the same wallpaper numbers at the same clock reading
\* build the same reference, and the table accepts both.
C8_UniqueReference ==
  \A i, j \in 1..Len(purchases) :
    i # j => purchases[i].externalReference # purchases[j].externalReference

\* the wallpaper numbers of a row, as a set
NumbersOf(r) == {r.wallpaperNumbers[k] : k \in 1..Len(r.wallpaperNumbers)}

\* C9: for each wallpaper number at most one purchase holding it is PENDING,
\* COMPLETED or APPROVED.  Violated by the code: neither creation flow looks
\* at the purchases that already hold the requested numbers.
C9_ArtifactExclusivity ==
  \A i, j \in 1..Len(purchases) :
    (/\ i # j
     /\ NumbersOf(purchases[i]) \cap NumbersOf(purchases[j]) # {}
     /\ purchases[i].status \in {"PENDING", "COMPLETED", "APPROVED"})
      => purchases[j].status \notin {"PENDING", "COMPLETED", "APPROVED"}


\* C5: under repeated sweep runs every purchase created in PENDING
\* eventually reaches a terminal status and stays in it.  Violated by the
\* code (FairSpec): a later webhook overwrites a terminal status, and a
\* purchase whose provider keeps answering "pending" is never timed out.
C5_EventualConvergence ==
  \A i \in 1..MaxPurchases :
    []((i <= Len(purchases) /\ purchases[i].createdAt = 0)
         => <>[](i <= Len(purchases) /\ purchases[i].status \in TerminalStatuses))


\* the table after n more deliveries of the same event
RECURSIVE RedeliverMercadoPago(_, _, _, _)
RedeliverMercadoPago(store, e, t, n) ==
  IF n = 0 THEN store
  ELSE RedeliverMercadoPago(handleMercadoPago(store, e, t), e, t, n - 1)

RECURSIVE RedeliverWompi(_, _, _, _)
RedeliverWompi(store, e, t, n) ==
  IF n = 0 THEN store
  ELSE RedeliverWompi(handleWompi(store, e, t), e, t, n - 1)

TransactionIdKind(p) ==
  CASE ProviderOf(p) = "WOMPI" ->
         IF p.wompiTransactionId = NullText THEN "none"
         ELSE IF p.wompiTransactionId.shape = "digits-digits-digits" THEN "real"
         ELSE "reference"
    [] ProviderOf(p) = "MERCADOPAGO" ->
         IF p.mercadopagoPaymentId = NoPaymentId THEN "none" ELSE "real"
    [] OTHER -> "unsupported"

\* older than 30 minutes; 6 hours or 24 hours reached
TimedOut(p, t) ==
  CASE TransactionIdKind(p) = "none" -> t - p.createdAt > ThirtyMinutes
    [] TransactionIdKind(p) = "reference" -> t - p.createdAt >= SixHours
    [] TransactionIdKind(p) = "real" -> t - p.createdAt >= TwentyFourHours
    [] OTHER -> FALSE

SweepInputs == MercadoPagoStatuses \cup WompiStatuses \cup {"approved", "fail", "none"}

Untouched(p) ==
  /\ purchases[p.id].status = "PENDING"
  /\ purchases[p.id].mercadopagoPaymentId = NoPaymentId
  /\ p.mercadopagoPaymentId = NoPaymentId

RowsWithReference(store, ref) == {i \in 1..Len(store) : store[i].externalReference = ref}

\* the rows the running sweep holds in its snapshot
SnapshotIds == {pendingPurchases[k].id : k \in 1..Len(pendingPurchases)}

\* the rows whose content differs between two tables of the same length
ChangedRows(before, after) == {i \in 1..Len(before) : after[i] # before[i]}

\* C11: a webhook that reports the payment of a PENDING purchase as approved
\* (a MercadoPago notification whose payment is 'approved'; a Wompi
\* payment_link.paid or transaction.updated, whose transaction status the
\* handler never reads, APPROVED included), handled while no sweep is
\* running, makes the purchase COMPLETED, and a sweep that loads afterwards
\* does not touch a COMPLETED purchase.  Violated by the code: the
\* MercadoPago webhook stores APPROVED, and transaction.updated writes nothing.
C11_ApprovedBeforeSweep ==
  [][/\ \A r \in MercadoPagoRequests(purchases) :
          (/\ funcWebhookMercadoPago(r)
           /\ pc = "idle"
           /\ r.type = "payment" /\ r.hasData /\ r.hasId /\ r.storeOk
           /\ r.e.status = "approved")
            => \A i \in RowsWithReference(purchases, r.e.externalReference) :
                 (purchases[i].status = "PENDING" /\ Cardinality(RowsWithReference(purchases, r.e.externalReference)) = 1
                  /\ \A j \in 1..Len(purchases) : purchases[j].mercadopagoPaymentId # r.e.paymentId)
                   => purchases'[i].status = "COMPLETED"
     /\ \A r \in WompiRequests(purchases) :
          (/\ funcWebhookWompi(r)
           /\ pc = "idle"
           /\ r.hasBody /\ r.hasData /\ r.signature = "null" /\ r.storeOk
           /\ r.e.event \in {"payment_link.paid", "transaction.updated"})
            => \A i \in RowsWithReference(purchases, r.e.reference) :
                 purchases[i].status = "PENDING" => purchases'[i].status = "COMPLETED"
     /\ \A q \in MercadoPagoStatuses \cup WompiStatuses \cup {"approved", "fail", "none"},
           storeOk \in BOOLEAN :
          cleanupStep(q, storeOk)
            => \A i \in 1..Len(purchases) :
                 (purchases[i].status = "COMPLETED" /\ i \notin SnapshotIds)
                   => purchases'[i] = purchases[i]]_vars

\* C12: for a PENDING purchase with a provider-issued transaction id whose
\* status query fails, a sweep step before 24 hours since creation leaves
\* it PENDING and a step at or after 24 hours sets it CANCELLED.  Violated
\* by the code: a MercadoPago purchase whose payment id is known and whose
\* query fails is cancelled once it is older than 30 minutes.
C12_HardTimeout ==
  [][\A q \in SweepInputs :
       cleanupStep(q, TRUE) =>
         LET p == pendingPurchases[idx + 1]
             age == now - p.createdAt
         IN (/\ purchases[p.id].status = "PENDING"
             /\ TransactionIdKind(p) = "real"
             /\ q = "fail")
              => /\ age < TwentyFourHours => purchases'[p.id].status = "PENDING"
                 /\ age >= TwentyFourHours => purchases'[p.id].status = "CANCELLED"]_vars

\* C13: for a PENDING purchase whose Wompi transaction id is a copy of its
\* external reference, the sweep step makes no provider query; it leaves the
\* purchase PENDING while fewer than 6 hours have passed since creation and
\* sets it CANCELLED when 6 hours or more have passed.
C13_ReferenceTimeout ==
  [][\A q \in SweepInputs :
       cleanupStep(q, TRUE) =>
         LET p == pendingPurchases[idx + 1]
             age == now - p.createdAt
         IN (/\ purchases[p.id].status = "PENDING"
             /\ ProviderOf(p) = "WOMPI"
             /\ p.wompiTransactionId = p.externalReference)
              => /\ q = "none"
                 /\ age < SixHours => purchases'[p.id].status = "PENDING"
                 /\ age >= SixHours => purchases'[p.id].status = "CANCELLED"]_vars

\* C13 witness: the sweep has processed two purchases of the Wompi flow
\* that still carry their reference as transaction id: one at least 6 hours
\* old, now CANCELLED, and a younger one, still PENDING.
C13_Witness ==
  /\ pc = "done"
  /\ idx = 2
  /\ result.errors = <<>>
  /\ LET old == pendingPurchases[1]
         young == pendingPurchases[2]
     IN /\ old.wompiTransactionId = old.externalReference
        /\ young.wompiTransactionId = young.externalReference
        /\ now - old.createdAt >= SixHours
        /\ now - young.createdAt < SixHours
        /\ purchases[old.id].status = "CANCELLED"
        /\ purchases[young.id].status = "PENDING"

\* C14: for a PENDING purchase with a provider-issued transaction id, when
\* the sweep's status query answers, the purchase's status after the step is
\* the sweep's mapping of the answer, whatever the purchase's age.
C14_LiveStatusWins ==
  [][\A q \in SweepInputs :
       cleanupStep(q, TRUE) =>
         LET p == pendingPurchases[idx + 1]
         IN (/\ purchases[p.id].status = "PENDING"
             /\ TransactionIdKind(p) = "real"
             /\ q \notin {"fail", "none"})
              => purchases'[p.id].status =
                   IF ProviderOf(p) = "WOMPI" THEN mapWompiStatus(q)
                   ELSE mapMercadoPagoStatus(q)]_vars

\* C14 witness: the sweep has processed a purchase with a provider-issued
\* Wompi id that is 24 hours old, and the purchase is COMPLETED: the live
\* answer was applied where the hard timeout would have cancelled.
C14_Witness ==
  /\ pc \in {"running", "done"}
  /\ idx >= 1
  /\ LET p == pendingPurchases[idx]
     IN /\ ProviderOf(p) = "WOMPI"
        /\ TransactionIdKind(p) = "real"
        /\ now - p.createdAt >= TwentyFourHours
        /\ purchases[p.id].status = "COMPLETED"
        /\ result.updatedCount = idx

C17_InvalidSignature ==
  \A r \in WompiRequests(purchases) :
    r.signature = "forged"
      => /\ webhookWompi(purchases, r, now).response = "success"
         /\ webhookWompi(purchases, r, now).purchases = purchases

FirstOf(rows) == {i \in rows : \A j \in rows : i <= j}

\* the rows whose MercadoPago payment id is id
RowsWithPaymentId(store, id) == {i \in 1..Len(store) : store[i].mercadopagoPaymentId = id}

\* the transaction ids a Wompi event can name: those stored on the rows
StoredWompiIds(store) ==
  {store[i].wompiTransactionId : i \in 1..Len(store)} \ {NullText}

C20_SameTransitionRules ==
  /\ \A e \in MercadoPagoEvents(purchases) :
       LET i == ResolvePurchase(purchases, e.paymentId, e.externalReference)
       IN (e.status # "fail" /\ i # 0)
            => handleMercadoPago(purchases, e, now)[i].status = mapMercadoPagoStatus(e.status)
  /\ \A e \in WompiEvents(purchases) :
       e.event = "payment_link.paid"
         => \A i \in RowsWithReference(purchases, e.reference) :
              handleWompi(purchases, e, now)[i].status = mapWompiStatus("APPROVED")

DocumentedWompiTable ==
  [PENDING |-> "PENDING", APPROVED |-> "COMPLETED", DECLINED |-> "FAILED", VOIDED |-> "CANCELLED"]

\* C22: mapWompiStatus follows the documented table: PENDING gives PENDING,
\* APPROVED gives COMPLETED, DECLINED gives FAILED, VOIDED gives CANCELLED.
\* Violated by the code: DECLINED gives REJECTED.
C22_DocumentedWompiMapping ==
  \A k \in 1..Len(norm) :
    (norm[k].mapper = "mapWompiStatus" /\ norm[k].native \in DOMAIN DocumentedWompiTable)
      => norm[k].canonical = DocumentedWompiTable[norm[k].native]

\* C23: when the processing of one purchase in a sweep run raises, the
\* error is recorded with the purchase's id in the run's errors, the run goes
\* on with the next purchase of the loaded list, and a run that returns has
\* processed every purchase it loaded, each one counted either as processed
\* or as an error.
C23_SweepErrorIsolation ==
  /\ [](pc = "done" => /\ idx = Len(pendingPurchases)
                       /\ result.updatedCount + Len(result.errors) = Len(pendingPurchases))
  /\ [][\A q \in SweepInputs :
          cleanupStep(q, FALSE) =>
            LET p == pendingPurchases[idx + 1]
            IN /\ Len(result'.errors) = Len(result.errors) + 1
               /\ result'.errors[Len(result'.errors)].purchaseId = p.id
               /\ idx' = idx + 1
               /\ pc' = IF idx' < Len(pendingPurchases) THEN "running" ELSE "done"]_vars

\* C23 witness: a run has ended in which the update of the first purchase
\* raised and was recorded, and the second purchase was then cancelled.
C23_Witness ==
  /\ pc = "done"
  /\ Len(pendingPurchases) = 2
  /\ Len(result.errors) = 1
  /\ result.errors[1].purchaseId = pendingPurchases[1].id
  /\ purchases[pendingPurchases[1].id].status = "PENDING"
  /\ purchases[pendingPurchases[2].id].status = "CANCELLED"
  /\ result.updatedCount = 1

\* C24: a sweep run fails (the error leaves cleanupPendingPurchases and the
\* timer function rethrows it) exactly when its initial load of the PENDING
\* purchases fails; the error of a single purchase never makes the run fail.
C24_SweepFailsOnLoadOnly ==
  [][/\ cleanupLoad(FALSE) => pc' = "failed"
     /\ cleanupLoad(TRUE) => pc' # "failed"
     /\ (pc # "failed" /\ pc' = "failed") => pc = "idle"
     /\ \A q \in SweepInputs, storeOk \in BOOLEAN :
          cleanupStep(q, storeOk) => pc' \in {"running", "done"}
     /\ cleanupThrow => pc = "failed"]_vars

\* C24 witness: the load of a run has failed while a PENDING purchase was
\* waiting in the table.
C24_Witness ==
  /\ pc = "failed"
  /\ \E i \in 1..Len(purchases) : purchases[i].status = "PENDING"

\* C25: at the end of a sweep run processedCount is the number of purchases
\* the run scanned, and updatedCount is the number of purchases whose status
\* the run changed: a step that leaves its purchase's status as it was does
\* not count.  Violated by the code: updatedCount is incremented for every
\* purchase whose processing did not raise, also when it is left PENDING.
C25_RunSummary ==
  /\ [](pc = "done" => result.processedCount = Len(pendingPurchases))
  /\ [][\A q \in SweepInputs, storeOk \in BOOLEAN :
          cleanupStep(q, storeOk) =>
            LET p == pendingPurchases[idx + 1]
                transitioned == purchases'[p.id].status # purchases[p.id].status
            IN result'.updatedCount =
                 result.updatedCount + (IF transitioned THEN 1 ELSE 0)]_vars

\* C26: a sweep run processes exactly the purchases that are PENDING when it
\* loads, one after another in ascending createdAt order, and writes to no
\* purchase outside the loaded list: the load takes the PENDING rows and no
\* other, each once, oldest first; each step is about the next purchase of
\* the list and changes no other row; a run that returns has gone through
\* the whole list.
C26_SweepScope ==
  /\ [](pc = "done" => idx = Len(pendingPurchases))
  /\ [][/\ cleanupLoad(TRUE) =>
            /\ {pendingPurchases'[k].id : k \in 1..Len(pendingPurchases')}
                 = {i \in 1..Len(purchases) : purchases[i].status = "PENDING"}
            /\ \A k, l \in 1..Len(pendingPurchases') :
                 k < l => /\ pendingPurchases'[k].id # pendingPurchases'[l].id
                          /\ pendingPurchases'[k].createdAt <= pendingPurchases'[l].createdAt
            /\ \A k \in 1..Len(pendingPurchases') :
                 pendingPurchases'[k] = [id |-> pendingPurchases'[k].id] @@ purchases[pendingPurchases'[k].id]
            /\ purchases' = purchases
     /\ \A q \in SweepInputs, storeOk \in BOOLEAN :
          cleanupStep(q, storeOk) =>
            /\ ChangedRows(purchases, purchases') \subseteq {pendingPurchases[idx + 1].id}
            /\ pendingPurchases' = pendingPurchases
            /\ idx' = idx + 1]_vars

\* C26 witness: a run over two purchases created at different times has
\* ended; it cancelled the older one first and left the younger one PENDING.
C26_Witness ==
  /\ pc = "done"
  /\ idx = 2
  /\ pendingPurchases[1].createdAt < pendingPurchases[2].createdAt
  /\ purchases[pendingPurchases[1].id].status = "CANCELLED"
  /\ purchases[pendingPurchases[2].id].status = "PENDING"
  /\ result.errors = <<>>

\* the rows a webhook request writes (status and updatedAt)
webhookMercadoPagoWrites(store, r, t) ==
  IF webhookMercadoPago(store, r, t).log = "processed"
    THEN updatePaymentStatusWrites(store, r.e.paymentId, r.e.externalReference)
    ELSE {}

webhookWompiWrites(store, r, t) ==
  IF webhookWompi(store, r, t).log = "processed" /\ r.e.event # "transaction.updated"
    THEN updatePurchaseStatusByReferenceWrites(store, r.e.reference)
    ELSE {}

\* C27: when a webhook or the sweep proposes for a purchase the status the
\* purchase has, nothing is written to it: no update is issued, so status
\* and updatedAt stay as they are.  Stated over every reachable table, every
\* request that can be sent to it and every step the running sweep can take.
\* Violated by the code: both webhook handlers issue their update, which
\* sets updatedAt to the current time, without comparing statuses, and the
\* sweep compares with the status it loaded, not with the stored one.
C27_NoOpOnEqualStatus ==
  /\ \A r \in MercadoPagoRequests(purchases) :
       \A i \in webhookMercadoPagoWrites(purchases, r, now) :
         statusMapping(r.e.status) # purchases[i].status
  /\ \A r \in WompiRequests(purchases) :
       \A i \in webhookWompiWrites(purchases, r, now) :
         webhookWompi(purchases, r, now).purchases[i].status # purchases[i].status
  /\ pc = "running" =>
       \A q \in ProviderAnswers(pendingPurchases[idx + 1]) :
         LET p == pendingPurchases[idx + 1]
         IN issuesUpdate(p, now, q)
              => processPendingPurchase(p, now, q).newStatus # purchases[p.id].status

\* C28: every purchase holds at least one wallpaper number from its
\* creation on; no webhook delivery and no sweep step (no step at all)
\* changes the wallpaper numbers of a purchase; a creation request with an
\* empty list of numbers is refused by both creation flows and adds no row.
C28_ArtifactSetFixed ==
  /\ [](\A i \in 1..Len(purchases) : Len(purchases[i].wallpaperNumbers) > 0)
  /\ [][/\ \A i \in 1..Len(purchases) :
            /\ i <= Len(purchases')
            /\ purchases'[i].wallpaperNumbers = purchases[i].wallpaperNumbers
         /\ ~createPurchase(<<>>)
         /\ ~createWompiPurchase(<<>>)
         /\ Len(purchases') > Len(purchases)
              => /\ Len(purchases') = Len(purchases) + 1
                 /\ \E nums \in NumberLists \ {<<>>} :
                      purchases'[Len(purchases')].wallpaperNumbers = nums]_vars

\* C28 witness: a purchase that a webhook settled and a purchase that the
\* sweep cancelled both still hold the number they were created with.
C28_Witness ==
  /\ pc = "done"
  /\ idx >= 1
  /\ \E i, j \in 1..Len(purchases) :
       /\ purchases[i].status = "COMPLETED"
       /\ purchases[i].wallpaperNumbers = <<1>>
       /\ j = pendingPurchases[idx].id
       /\ purchases[j].status = "CANCELLED"
       /\ purchases[j].wallpaperNumbers = <<1>>

\* the numbers a list holds
Elements(seq) == {seq[k] : k \in 1..Len(seq)}

\* C29: in every state getWallpaperStatus reports as unavailable exactly
\* the wallpaper numbers of the purchases that are PENDING, COMPLETED or
\* APPROVED: approved lists the numbers of the COMPLETED and APPROVED
\* purchases, pending those of the PENDING ones, each number once in
\* ascending order; a number that only REJECTED or CANCELLED purchases hold
\* is in neither list.
C29_DerivedAvailability ==
  LET status == getWallpaperStatus(purchases)
      heldBy(statuses) ==
        {n \in 1..MaxNumber :
           \E i \in 1..Len(purchases) :
             purchases[i].status \in statuses /\ n \in NumbersOf(purchases[i])}
  IN /\ Elements(status.approved) = heldBy({"COMPLETED", "APPROVED"})
     /\ Elements(status.pending) = heldBy({"PENDING"})
     /\ Elements(status.approved) \cup Elements(status.pending)
          = heldBy({"PENDING", "COMPLETED", "APPROVED"})
     /\ Len(status.approved) = Cardinality(Elements(status.approved))
     /\ Len(status.pending) = Cardinality(Elements(status.pending))
     /\ \A n \in 1..MaxNumber :
          (\A i \in 1..Len(purchases) :
             n \in NumbersOf(purchases[i]) => purchases[i].status \in {"REJECTED", "CANCELLED"})
            => n \notin Elements(status.approved) \cup Elements(status.pending)

\* C29 witness: wallpaper 1 was bought twice; one purchase was rejected and
\* the other cancelled, and getWallpaperStatus lists it in neither list.
C29_Witness ==
  /\ Len(purchases) = 2
  /\ purchases[1].status = "REJECTED"
  /\ purchases[2].status = "CANCELLED"
  /\ 1 \in NumbersOf(purchases[1]) \cap NumbersOf(purchases[2])
  /\ getWallpaperStatus(purchases) = [approved |-> <<>>, pending |-> <<>>]

\* C30: processing one webhook event, or one purchase within a sweep run,
\* changes at most one purchase (the one it resolves) and leaves every field
\* of every other purchase as it is.  Violated by the code: the Wompi
\* handler updates with updateMany every purchase that has the event's
\* reference, and two purchases can have the same reference.
C30_NoCrossPurchaseEffect ==
  /\ [](\A r \in MercadoPagoRequests(purchases) :
          Cardinality(ChangedRows(purchases, webhookMercadoPago(purchases, r, now).purchases)) <= 1)
  /\ [](\A r \in WompiRequests(purchases) :
          Cardinality(ChangedRows(purchases, webhookWompi(purchases, r, now).purchases)) <= 1)
  /\ [][\A q \in SweepInputs, storeOk \in BOOLEAN :
          cleanupStep(q, storeOk) =>
            ChangedRows(purchases, purchases') \subseteq {pendingPurchases[idx + 1].id}]_vars

\* C31 as stated: a provider status query never returns a guessed status:
\* when the request fails on the network or is answered with an error it
\* raises, and when it returns, the status returned is the one the provider
\* reported.  Violated by the code: for an answer without a status
\* getTransactionStatus returns 'UNKNOWN', which the provider did not report.
C31_NoGuessedStatus_AsStated ==
  \A k \in 1..Len(norm) :
    LET response == norm[k].native
        returned == norm[k].canonical
    IN /\ (response.network = "error" \/ ~response.ok) => returned = "fail"
       /\ returned # "fail" => returned = response.status

\* C31 amended: a provider status query raises when the request fails on
\* the network or is answered with an error, and never returns then; when
\* it returns, getPaymentStatus returns the status field of the answer as it
\* is, and getTransactionStatus returns the status the provider reported if
\* the answer has a non-empty one and the placeholder 'UNKNOWN' otherwise.
C31_NoGuessedStatus ==
  \A k \in 1..Len(norm) :
    LET response == norm[k].native
        returned == norm[k].canonical
    IN /\ (response.network = "error" \/ ~response.ok) <=> returned = "fail"
       /\ (returned # "fail" /\ norm[k].mapper = "getPaymentStatus")
            => returned = response.status
       /\ (returned # "fail" /\ norm[k].mapper = "getTransactionStatus")
            => returned = IF response.status \in {Missing, ""} THEN "UNKNOWN"
                          ELSE response.status

\* C31 witness: getTransactionStatus was called twice: the first request
\* was answered with an error and the call raised, the second answer had no
\* status and the call returned 'UNKNOWN'.
C31_Witness ==
  /\ Len(norm) = 2
  /\ norm[1].mapper = "getTransactionStatus"
  /\ norm[1].native.network = "ok" /\ ~norm[1].native.ok
  /\ norm[1].canonical = "fail"
  /\ norm[2].mapper = "getTransactionStatus"
  /\ norm[2].native.ok /\ norm[2].native.status = Missing
  /\ norm[2].canonical = "UNKNOWN"

\* C32: when cleanupPendingPurchases returns, processedCount is the sum of
\* updatedCount and the number of entries in errors, and no purchase id is
\* in errors more than once (every id in errors is one the run loaded).
C32_SweepAccounting ==
  pc = "done" =>
    /\ result.processedCount = result.updatedCount + Len(result.errors)
    /\ \A k, l \in 1..Len(result.errors) :
         k # l => result.errors[k].purchaseId # result.errors[l].purchaseId
    /\ \A k \in 1..Len(result.errors) : result.errors[k].purchaseId \in SnapshotIds

\* C32 witness: a run over two purchases is about to return; the first
\* was cancelled and counted, the update of the second raised.
C32_Witness ==
  /\ pc = "done"
  /\ result.processedCount = 2
  /\ result.updatedCount = 1
  /\ Len(result.errors) = 1
  /\ result.errors[1].purchaseId = pendingPurchases[2].id
  /\ purchases[pendingPurchases[1].id].status = "CANCELLED"

\* ---------------------------------------------------------------- C33
\* the rows WompiPurchaseService.createPurchase wrote
CreatedByWompi(store) == {i \in 1..Len(store) : store[i].origin = "WOMPI"}

C35_ProviderDispatch_AsStated ==
  /\ [](pc = "running" =>
          LET p == pendingPurchases[idx + 1]
          IN \A q \in ProviderAnswers(p) :
               /\ p.paymentProvider = "null" =>
                    processPendingPurchase(p, now, q) = processMercadoPagoPurchase(p, now, q)
               /\ p.paymentProvider = "WOMPI" =>
                    processPendingPurchase(p, now, q) = processWompiPurchase(p, now, q))
  /\ [][(pc = "running" /\ idx' = idx + 1) =>
          LET p == pendingPurchases[idx + 1]
          IN p.paymentProvider \notin {"null", "WOMPI"} =>
               /\ purchases' = purchases
               /\ result'.errors = result.errors]_vars

\* C35: the sweep processes a loaded purchase whose paymentProvider is
\* null, the empty string or MERCADOPAGO with the MercadoPago policy and
\* one whose paymentProvider is WOMPI with the Wompi policy; an iteration
\* over a purchase with any other paymentProvider asks no provider, writes
\* nothing to the table and adds no error (the purchase counts as processed
\* and the sweep leaves it PENDING).
C35_ProviderDispatch ==
  /\ [](pc = "running" =>
          LET p == pendingPurchases[idx + 1]
          IN \A q \in ProviderAnswers(p) :
               /\ p.paymentProvider \in {"null", "", "MERCADOPAGO"} =>
                    processPendingPurchase(p, now, q) = processMercadoPagoPurchase(p, now, q)
               /\ p.paymentProvider = "WOMPI" =>
                    processPendingPurchase(p, now, q) = processWompiPurchase(p, now, q)
               /\ p.paymentProvider \notin {"null", "", "MERCADOPAGO", "WOMPI"} =>
                    q = "none" /\ ~issuesUpdate(p, now, q))
  /\ [][(pc = "running" /\ idx' = idx + 1) =>
          LET p == pendingPurchases[idx + 1]
          IN p.paymentProvider \notin {"null", "", "MERCADOPAGO", "WOMPI"} =>
               /\ purchases' = purchases
               /\ result'.errors = result.errors]_vars

\* a sweep that ended, 24 hours after their creation, over a purchase of a
\* provider it does not know, which is PENDING still, and a purchase of the
\* Wompi flow, which it cancelled: both count as processed, none as error
C35_Witness ==
  /\ pc = "done"
  /\ now = TwentyFourHours
  /\ Len(pendingPurchases) = 2
  /\ \E k, l \in 1..2 :
       /\ pendingPurchases[k].paymentProvider = "OTHER"
       /\ pendingPurchases[k].createdAt = 0
       /\ purchases[pendingPurchases[k].id].status = "PENDING"
       /\ pendingPurchases[l].paymentProvider = "WOMPI"
       /\ purchases[pendingPurchases[l].id].status = "CANCELLED"
  /\ result.processedCount = 2
  /\ result.errors = <<>>

\* ---------------------------------------------------------------- C36
\* C36: once the mercadopagoPaymentId of a purchase is not null, no step
\* (no webhook delivery, no step of a sweep) changes it to another value.
\* Violated by the code: updatePaymentStatus writes the payment id of the
\* notification to the row it resolved, and a row resolved by its external
\* reference may hold the payment id of an earlier attempt.
C36_PaymentIdSetOnce ==
  [][\A i \in Ids :
       purchases[i].mercadopagoPaymentId # NoPaymentId
         => purchases'[i].mercadopagoPaymentId = purchases[i].mercadopagoPaymentId]_vars

\* ---------------------------------------------------------------- C37
\* C37: in the MercadoPago webhook the notification email is sent only
\* after updatePaymentStatus has returned, and a request whose email fails
\* leaves the table and returns the response that the same request leaves
\* and returns when its email is sent: the resolved purchase holds the
\* mapped status and the payment id, the response is the success one.  A
\* request whose provider status query fails leaves the table as it was,
\* sends no email and returns success.
C37_EmailAndQueryFailures ==
  /\ \A r \in MercadoPagoRequests(purchases) :
       LET out == webhookMercadoPago(purchases, r, now)
           sent == webhookMercadoPago(purchases, [r EXCEPT !.emailOk = TRUE], now)
           id == ResolvePurchase(purchases, r.e.paymentId, r.e.externalReference)
       IN /\ out.email # "none" => out.log \in {"processed", "purchase not found"}
          /\ out.email = "failed" =>
               /\ ~r.emailOk
               /\ out.purchases = sent.purchases
               /\ out.response = "success"
               /\ out.log = sent.log
               /\ id # 0 =>
                    /\ out.purchases[id].status = statusMapping(r.e.status)
                    /\ out.purchases[id].mercadopagoPaymentId = r.e.paymentId
          /\ (r.type = "payment" /\ r.hasData /\ r.hasId /\ r.e.status = "fail") =>
               /\ out.purchases = purchases
               /\ out.response = "success"
               /\ out.email = "none"
  /\ http.email = "failed" => http.response = "success"

\* the email of a notification failed after the purchase it resolved was
\* set to APPROVED and linked to the payment; the answer was success
C37_Witness ==
  /\ http.provider = "MERCADOPAGO"
  /\ http.email = "failed"
  /\ http.log = "processed"
  /\ http.response = "success"
  /\ \E i \in Ids :
       /\ purchases[i].status = "APPROVED"
       /\ purchases[i].mercadopagoPaymentId # NoPaymentId
       /\ [type |-> "payment", hasData |-> TRUE, hasId |-> TRUE,
           e |-> [paymentId |-> purchases[i].mercadopagoPaymentId, status |-> "fail",
                  externalReference |-> purchases[i].externalReference],
           storeOk |-> TRUE, emailOk |-> TRUE] \in MercadoPagoRequests(purchases)

\* ---------------------------------------------------------------- C38
\* C38: in every state the approved and the pending list of the wallpaper
\* status are each without duplicates and in ascending order, no number is
\* in both lists, and summary.totalUnavailable is the number of distinct
\* wallpaper numbers that are unavailable.  Violated by the code: a number
\* that a COMPLETED or APPROVED purchase and a PENDING purchase both hold is
\* in both lists and is counted twice in totalUnavailable.
C38_AvailabilitySummary ==
  LET response == funcGetWallpaperStatus(purchases)
      ascending(seq) == \A k, l \in 1..Len(seq) : k < l => seq[k] < seq[l]
  IN /\ ascending(response.approved)
     /\ ascending(response.pending)
     /\ Elements(response.approved) \cap Elements(response.pending) = {}
     /\ response.summary.totalUnavailable =
          Cardinality(Elements(response.approved) \cup Elements(response.pending))
====
